---- MODULE Spec2Model ----
(***************************************************************************)
(* go-webview2: the RPC bridge (msgcb, callbinding, Bind), the dispatch    *)
(* queue (Dispatch) and the message loop that drains it (Run, Terminate),  *)
(* modelled from webview.go.                                               *)
(***************************************************************************)
EXTENDS Integers, Sequences, FiniteSets, TLC

(***************************************************************************)
(* Bounds of the model.                                                    *)
(***************************************************************************)
\* Dispatch calls made by application code (caller threads and task bodies).
MaxTasks == 3
\* Messages the page sends through window.external.invoke.
MaxReqs == 2
\* Bind calls made by application code.
MaxBinds == 2
\* Longest parameter list of a request drawn in InitRPC.
MaxParams == 3
\* Documents the browser creates (Navigate, reload).
MaxLoads == 2
\* Dispatch calls another thread starts while the bridge is at work.
MaxOther == 1

\* Threads other than the one that owns the message loop.
Callers == {"c1", "c2"}
\* The thread that called NewWindow and runs Run (w.mainthread).
UI == "ui"
Threads == Callers \cup {UI}

(***************************************************************************)
(* JSON text (json.RawMessage) and Go values are different things: a       *)
(* parameter arrives as JSON text and is decoded to the Go type the        *)
(* handler declares; a result is a Go value and is encoded to JSON text.   *)
(***************************************************************************)
JNull == [j |-> "null", v |-> 0]
JNum(n) == [j |-> "num", v |-> n]
JStr(s) == [j |-> "str", v |-> s]
JSONVals == {JNull, JNum(1), JNum(2), JStr("a")}

GoNil == [t |-> "nil", v |-> 0]
GoInt(n) == [t |-> "int", v |-> n]
GoString(s) == [t |-> "string", v |-> s]
\* A channel: a Go value encoding/json cannot encode.
GoChan == [t |-> "chan", v |-> 0]
\* An error is known by its message (err.Error()); NoErr is the nil error.
NoErr == "<nil>"
\* A value of the interface type error: nil, or an error with a message.
NilError == [t |-> "error", v |-> NoErr]
GoError(msg) == [t |-> "error", v |-> msg]

\* The zero value reflect.New allocates for a parameter type.
ZeroOf(type) == IF type = "int" THEN GoInt(0) ELSE GoString("")

\* json.Unmarshal(raw, ptr) for a parameter of Go type `type`: JSON null leaves
\* the zero value and is no error; a JSON value of another kind is an
\* UnmarshalTypeError.
UnmarshalParam(raw, type) ==
    IF raw.j = "null" THEN [err |-> NoErr, val |-> ZeroOf(type)]
    ELSE IF raw.j = "num" /\ type = "int" THEN [err |-> NoErr, val |-> GoInt(raw.v)]
    ELSE IF raw.j = "str" /\ type = "string" THEN [err |-> NoErr, val |-> GoString(raw.v)]
    ELSE [err |-> IF raw.j = "num"
                  THEN "json: cannot unmarshal number into Go value of type string"
                  ELSE "json: cannot unmarshal string into Go value of type int",
          val |-> ZeroOf(type)]

\* json.Marshal(res) in msgcb: nil encodes as null, a channel is unsupported.
Marshal(val) ==
    IF val.t = "nil" THEN [err |-> NoErr, b |-> JNull]
    ELSE IF val.t = "int" THEN [err |-> NoErr, b |-> JNum(val.v)]
    ELSE IF val.t = "string" THEN [err |-> NoErr, b |-> JStr(val.v)]
    ELSE [err |-> "json: unsupported type: chan int", b |-> JNull]

\* jsString(v): the JSON text of a string.
jsString(s) == JStr(s)

(***************************************************************************)
(* Values application code passes to Bind.  A function is described by     *)
(* what reflect reports of it: its parameter types (for a variadic         *)
(* function the last entry is the element type of the final slice), and    *)
(* its result types.                                                       *)
(***************************************************************************)
Func(name, in, variadic, out) ==
    [name |-> name, func |-> TRUE, in |-> in, variadic |-> variadic, out |-> out]
\* func add(a, b int) (int, error): the sum, and no error.
hAdd == Func("add", <<"int", "int">>, FALSE, <<"int", "error">>)
\* func pos(a int) (int, error): a and no error when a > 0, else a and an error.
hPos == Func("pos", <<"int">>, FALSE, <<"int", "error">>)
\* func fail() (int, error): 0 and errors.New("boom").
hFail == Func("fail", <<>>, FALSE, <<"int", "error">>)
\* func check(s string) error: nil for "a", else an error.
hCheck == Func("check", <<"string">>, FALSE, <<"error">>)
\* func sum(nums ...int) int.
hSum == Func("sum", <<"int">>, TRUE, <<"int">>)
\* func count(tag string, nums ...int) int: the number of nums.
hCount == Func("count", <<"string", "int">>, TRUE, <<"int">>)
\* func noret(a int).
hNoret == Func("noret", <<"int">>, FALSE, <<>>)
\* func pair() (int, int): a second result that is no error.
hPair == Func("pair", <<>>, FALSE, <<"int", "int">>)
\* func mkchan() chan int: a result encoding/json cannot encode.
hChan == Func("mkchan", <<>>, FALSE, <<"chan">>)
\* func three() (int, int, error): more than two results.
hThree == Func("three", <<>>, FALSE, <<"int", "int", "error">>)
\* A value that is not a function.
NotFunc == [name |-> "notfunc", func |-> FALSE, in |-> <<>>, variadic |-> FALSE, out |-> <<>>]
\* No entry in w.bindings (the map lookup's ok = false).
NoBinding == [name |-> "none", func |-> FALSE, in |-> <<>>, variadic |-> FALSE, out |-> <<>>]

Handlers == {hAdd, hPos, hFail, hCheck, hSum, hCount, hNoret, hPair, hChan}
BindValues == Handlers \cup {hThree, NotFunc}

RECURSIVE SumInts(_)
SumInts(args) == IF args = <<>> THEN 0 ELSE Head(args).v + SumInts(Tail(args))

\* The handler bodies: v.Call(args).
Call(f, args) ==
    CASE f.name = "add" -> <<GoInt(args[1].v + args[2].v), NilError>>
      [] f.name = "pos" -> IF args[1].v > 0 THEN <<args[1], NilError>>
                           ELSE <<args[1], GoError("not positive")>>
      [] f.name = "fail" -> <<GoInt(0), GoError("boom")>>
      [] f.name = "check" -> IF args[1].v = "a" THEN <<NilError>>
                             ELSE <<GoError("empty")>>
      [] f.name = "sum" -> <<GoInt(SumInts(args))>>
      [] f.name = "count" -> <<GoInt(Len(args) - 1)>>
      [] f.name = "noret" -> <<>>
      [] f.name = "pair" -> <<GoInt(1), GoInt(2)>>
      [] f.name = "mkchan" -> <<GoChan>>
      [] f.name = "three" -> <<GoInt(1), GoInt(2), NilError>>

(***************************************************************************)
(* callbinding, after the lookup: f is the value found in w.bindings       *)
(* (NoBinding when ok is false), params the request's parameters.          *)
(* The result is (res, err) and, for the record, the arguments the handler *)
(* was invoked with (invoked = FALSE: v.Call was not reached).             *)
(***************************************************************************)
NotInvoked(res, err) == [res |-> res, err |-> err, invoked |-> FALSE, args |-> <<>>]
Invoked(res, err, args) == [res |-> res, err |-> err, invoked |-> TRUE, args |-> args]

\* v.Type().NumIn()
NumIn(f) == Len(f.in)

\* An arity test that asks a variadic function for its variadic parameter too.
ArityMismatchStrict(f, params) ==
    \/ f.variadic /\ Len(params) < NumIn(f)
    \/ ~f.variadic /\ Len(params) # NumIn(f)

\* The arity test of line 123: TRUE when the parameters are refused.
ArityMismatch(f, params) ==
    \/ f.variadic /\ Len(params) < NumIn(f) - 1
    \/ ~f.variadic /\ Len(params) # NumIn(f)

\* The type parameter i (1-based) is decoded to: lines 129-133.
ParamType(f, i) ==
    IF f.variadic /\ i >= NumIn(f) THEN f.in[NumIn(f)] ELSE f.in[i]

\* A decoding loop that drops the error of json.Unmarshal and goes on with
\* the zero value.
DecodeArgsLenient(f, params) ==
    [err |-> NoErr,
     args |-> [i \in 1..Len(params) |-> UnmarshalParam(params[i], ParamType(f, i)).val]]

\* The decoding loop of lines 127-138: the first parameter that fails to
\* decode ends it with that error; otherwise the decoded arguments.
DecodeArgs(f, params) ==
    LET dec(i) == UnmarshalParam(params[i], ParamType(f, i))
        bad == {i \in 1..Len(params) : dec(i).err # NoErr}
    IN  IF bad # {}
        THEN [err |-> dec(CHOOSE i \in bad : \A k \in bad : i <= k).err, args |-> <<>>]
        ELSE [err |-> NoErr, args |-> [i \in 1..Len(params) |-> dec(i).val]]

\* res[k].Type().Implements(errorType)
ImplementsError(f, k) == f.out[k] = "error"

\* A switch whose two-result case returns the value and drops the error.
NormalizeDropsError(f, res, args) ==
    CASE Len(res) = 0 -> Invoked(GoNil, NoErr, args)
      [] Len(res) = 1 ->
            IF ImplementsError(f, 1)
            THEN IF res[1] # NilError THEN Invoked(GoNil, res[1].v, args)
                 ELSE Invoked(GoNil, NoErr, args)
            ELSE Invoked(res[1], NoErr, args)
      [] Len(res) = 2 ->
            IF ~ImplementsError(f, 2)
            THEN Invoked(GoNil, "second return value must be an error", args)
            ELSE Invoked(res[1], NoErr, args)
      [] OTHER -> Invoked(GoNil, "unexpected number of return values", args)

\* The switch on len(res) of lines 142-169.
Normalize(f, res, args) ==
    CASE Len(res) = 0 -> Invoked(GoNil, NoErr, args)
      [] Len(res) = 1 ->
            IF ImplementsError(f, 1)
            THEN IF res[1] # NilError THEN Invoked(GoNil, res[1].v, args)
                 ELSE Invoked(GoNil, NoErr, args)
            ELSE Invoked(res[1], NoErr, args)
      [] Len(res) = 2 ->
            IF ~ImplementsError(f, 2)
            THEN Invoked(GoNil, "second return value must be an error", args)
            ELSE IF res[2] = NilError THEN Invoked(res[1], NoErr, args)
            ELSE Invoked(res[1], res[2].v, args)
      [] OTHER -> Invoked(GoNil, "unexpected number of return values", args)

\* A callbinding that reports an unknown method as an error.
callbindingUnknownErr(f, params) ==
    IF f = NoBinding THEN NotInvoked(GoNil, "unknown method")
    ELSE IF ArityMismatch(f, params)
    THEN NotInvoked(GoNil, "function arguments mismatch")
    ELSE LET d == DecodeArgs(f, params)
         IN  IF d.err # NoErr THEN NotInvoked(GoNil, d.err)
             ELSE Normalize(f, Call(f, d.args), d.args)

callbinding(f, params) ==
    IF f = NoBinding THEN NotInvoked(GoNil, NoErr)
    ELSE IF ArityMismatch(f, params)
    THEN NotInvoked(GoNil, "function arguments mismatch")
    ELSE LET d == DecodeArgs(f, params)
         IN  IF d.err # NoErr THEN NotInvoked(GoNil, d.err)
             ELSE Normalize(f, Call(f, d.args), d.args)

(***************************************************************************)
(* The script statement msgcb hands to Eval for request id: lines 96-109.  *)
(***************************************************************************)
Resolve(id, b) == [id |-> id, op |-> "resolve", arg |-> b]
Reject(id, msg) == [id |-> id, op |-> "reject", arg |-> jsString(msg)]

Response(id, r) ==
    IF r.err # NoErr THEN Reject(id, r.err)
    ELSE IF Marshal(r.res).err # NoErr THEN Reject(id, Marshal(r.res).err)
    ELSE Resolve(id, Marshal(r.res).b)


(***************************************************************************)
(* The state.                                                              *)
(***************************************************************************)
VARIABLES
    m,          \* w.m: "free", or the thread that holds it
    bindings,   \* w.bindings: name -> bound value (NoBinding: no entry)
    dispatchq,  \* w.dispatchq: the queued tasks, by id
    msgq,       \* the message queue of w.mainthread (posted messages)
    quitPosted, \* PostQuitMessage was called on the loop's thread
    uipc,       \* where the thread running Run is
    q,          \* Run's local q: what is left of the list swapped out
    cur,        \* the message (in msgcb) or the task (in the range loop) at hand
    f,          \* callbinding's f: the value its lookup found
    pc,         \* per thread: where it is inside Dispatch or Bind
    arg,        \* per thread: the argument of the Dispatch or Bind under way
    tasks,      \* every closure handed to Dispatch so far; a task's id is its index
    ncalls,     \* Dispatch and Bind calls application code has made, requests sent
    page,       \* the browser: the scripts handed to Init, and the document's
                \* window._rpc, window[name] and pending promises
    hist        \* history: what was appended, run, evaluated, invoked, decoded

vars == <<m, bindings, dispatchq, msgq, quitPosted, uipc, q, cur, f, pc, arg,
          tasks, ncalls, page, hist>>

\* Names the page may put in a request's method; only BindNames are ever bound.
Methods == {"f", "g"}
BindNames == {"f"}

\* Messages: WMApp carries no data in the program (wparam = lparam = 0); `of`
\* records which Dispatch posted it.
WMApp(id) == [type |-> "WMApp", of |-> id, msg |-> <<>>]
\* A message that makes the browser control call MessageCallback(msg).
WebMsg(msg) == [type |-> "WebMessage", of |-> 0, msg |-> <<msg>>]

\* The text handed to window.external.invoke: a request envelope, or text that
\* json.Unmarshal refuses.
Envelope(id, method, params) ==
    [wellformed |-> TRUE, id |-> id, method |-> method, params |-> params]
Malformed == [wellformed |-> FALSE, id |-> 0, method |-> "", params |-> <<>>]
NoMsg == Malformed

\* A closure: application code's (plain, or one whose body calls Dispatch
\* again), or msgcb's, which evaluates the script statement js.
NoJS == [id |-> 0, op |-> "none", arg |-> JNull]
Task(kind, js) == [kind |-> kind, js |-> js]
NoArg == [task |-> 0, name |-> "", val |-> NoBinding]
NoCur == [msg |-> NoMsg, task |-> 0]
\* {nextSeq: 1}: the object the injected script makes (line 369).  slots holds
\* <<seq, call>> for every RPC[seq] that holds the promise of the call-th
\* message the page sent.
NewRPC == [nextSeq |-> 1, slots |-> {}]
\* The browser before any document was created and before any Bind.
NoPage ==
    [scripts  |-> <<>>,                   \* names of the scripts handed to Init, in order
     loads    |-> 0,                      \* documents created so far
     objs     |-> <<>>,                   \* the RPC objects made in this document
     win      |-> 0,                      \* window._rpc: an index of objs, 0 undefined
     fn       |-> [n \in Methods |-> 0],  \* the RPC object window[n] closes over, 0: undefined
     settled  |-> <<>>,                   \* statements that settled a promise, in order
     promises |-> <<>>]                   \* the calls whose promise they settled

NoHist ==
    [appended |-> <<>>,   \* <<id, drain under way at the append or 0>>, in append order
     started  |-> <<>>,   \* <<id, drain, wake>>: tasks in the order their bodies started
     finished |-> 0,      \* task bodies that have returned
     drains   |-> 0,      \* swaps of dispatchq done by Run
     wake     |-> 0,      \* the Dispatch whose wake message Run is serving
     quit     |-> FALSE,  \* GetMessageW has returned WMQuit
     evald    |-> <<>>,   \* script statements handed to Browser.Eval, in order
     invoked  |-> <<>>,   \* <<request id, handler name, args>>: v.Call's made
     decoded  |-> <<>>,   \* <<request, value found by the lookup>>
     dropped  |-> 0,      \* messages msgcb logged as invalid and dropped
     binderrs |-> 0,      \* Bind calls that returned an error
     inits    |-> {},     \* names whose script Bind handed to Init
     binds    |-> <<>>,   \* <<name, value, returned an error>>: Bind calls that returned
     inserted |-> <<>>,   \* <<name, value>>: the writes to w.bindings, in order
     sent     |-> <<>>,   \* <<message, document>>: what the page handed to invoke
     received |-> 0,      \* calls of msgcb
     resp     |-> <<>>,   \* <<task, call>>: the closure msgcb dispatched for a message
     settles  |-> <<>>]   \* <<task, call, document>>: the promise an Eval settled (0: none)

Init ==
    /\ m = "free"
    /\ bindings = [n \in Methods |-> NoBinding]
    /\ dispatchq = <<>>
    /\ msgq = <<>>
    /\ quitPosted = FALSE
    /\ uipc = "GetMessage"
    /\ q = <<>>
    /\ cur = NoCur
    /\ f = NoBinding
    /\ pc = [t \in Threads |-> "idle"]
    /\ arg = [t \in Threads |-> NoArg]
    /\ tasks = <<>>
    /\ ncalls = [dispatch |-> 0, bind |-> 0, req |-> 0]
    /\ page = NoPage
    /\ hist = NoHist

\* A drain is under way from the swap until the range loop has run out.
Draining == uipc \in {"RunRange", "RunTask"}

(***************************************************************************)
(* Dispatch (lines 349-354), by any thread t.                              *)
(***************************************************************************)
\* w.m.Lock()
DispatchLock(t) ==
    /\ pc[t] = "DispatchLock"
    /\ m = "free"
    /\ m' = t
    /\ pc' = [pc EXCEPT ![t] = "DispatchAppend"]
    /\ UNCHANGED <<bindings, dispatchq, msgq, quitPosted, uipc, q, cur, f, arg,
                   tasks, ncalls, page, hist>>

\* The record Dispatch's append leaves: the task, and the drain under way.
Appended(id) == <<id, IF Draining THEN hist.drains ELSE 0>>

\* An append at the front of the list.
EnqueueFront(queue, id) == <<id>> \o queue

\* append(w.dispatchq, f): line 351.
Enqueue(queue, id) == Append(queue, id)

\* w.dispatchq = append(w.dispatchq, f); w.m.Unlock()
DispatchAppend(t) ==
    /\ pc[t] = "DispatchAppend"
    /\ dispatchq' = Enqueue(dispatchq, arg[t].task)
    /\ m' = "free"
    /\ pc' = [pc EXCEPT ![t] = "DispatchPost"]
    /\ hist' = [hist EXCEPT !.appended = Append(@, Appended(arg[t].task))]
    /\ UNCHANGED <<bindings, msgq, quitPosted, uipc, q, cur, f, arg, tasks,
                   ncalls, page>>

\* Where the loop's thread goes on when a Dispatch it made returns: the task
\* body that called it returns to the range loop, msgcb returns to the loop.
AfterDispatch(t) ==
    IF t # UI THEN uipc
    ELSE IF uipc = "RunTask" THEN "RunRange" ELSE "GetMessage"

\* A Dispatch that posts a wake message for the first task only.
PostedFirstOnly(queue, id) == IF id = 1 THEN Append(queue, WMApp(id)) ELSE queue

\* A Dispatch whose wake message does not reach the loop's thread.
PostedElsewhere(queue, id) == queue

\* The loop's message queue after PostThreadMessageW(w.mainthread, WMApp, 0, 0):
\* line 353.
Posted(queue, id) == Append(queue, WMApp(id))

\* PostThreadMessageW(w.mainthread, WMApp, 0, 0), and return.
DispatchPost(t) ==
    /\ pc[t] = "DispatchPost"
    /\ msgq' = Posted(msgq, arg[t].task)
    /\ pc' = [pc EXCEPT ![t] = "idle"]
    /\ arg' = [arg EXCEPT ![t] = NoArg]
    /\ uipc' = AfterDispatch(t)
    /\ hist' = [hist EXCEPT !.finished = IF t = UI /\ uipc = "RunTask" THEN @ + 1 ELSE @]
    /\ UNCHANGED <<m, bindings, dispatchq, quitPosted, q, cur, f, tasks, ncalls, page>>

\* Application code on another thread calls w.Dispatch(task).
CallDispatch(c, kind) ==
    /\ pc[c] = "idle"
    /\ ncalls.dispatch + (IF kind = "spawn" THEN 2 ELSE 1) <= MaxTasks
    /\ tasks' = Append(tasks, Task(kind, NoJS))
    /\ arg' = [arg EXCEPT ![c] = [NoArg EXCEPT !.task = Len(tasks) + 1]]
    /\ pc' = [pc EXCEPT ![c] = "DispatchLock"]
    /\ ncalls' = [ncalls EXCEPT !.dispatch = @ + (IF kind = "spawn" THEN 2 ELSE 1)]
    /\ UNCHANGED <<m, bindings, dispatchq, msgq, quitPosted, uipc, q, cur, f, page, hist>>


(***************************************************************************)
(* Run (lines 248-271) on the thread that owns the window.                 *)
(***************************************************************************)
\* GetMessageW returns a WMApp message: line 257.
GetMessageWake ==
    /\ uipc = "GetMessage"
    /\ msgq # <<>>
    /\ Head(msgq).type = "WMApp"
    /\ msgq' = Tail(msgq)
    /\ uipc' = "RunLock"
    /\ hist' = [hist EXCEPT !.wake = Head(msgq).of]
    /\ UNCHANGED <<m, bindings, dispatchq, quitPosted, q, cur, f, pc, arg, tasks,
                   ncalls, page>>

\* GetMessageW returns WMQuit: Run returns (line 266).  The quit message is
\* not a posted message: the system makes it up once PostQuitMessage was
\* called, before or after the posted messages still in the queue.
\* A loop that goes on after WMQuit.
OnQuitContinue == "GetMessage"

\* Where Run is after WMQuit: it has returned (line 266).
OnQuit == "Terminated"

GetMessageQuit ==
    /\ uipc = "GetMessage"
    /\ quitPosted
    /\ uipc' = OnQuit
    /\ hist' = [hist EXCEPT !.quit = TRUE]
    /\ UNCHANGED <<m, bindings, dispatchq, msgq, quitPosted, q, cur, f, pc, arg,
                   tasks, ncalls, page>>

\* GetMessageW returns another message: DispatchMessageW (line 269) lets the
\* browser control call chromium.MessageCallback = w.msgcb (line 70).
GetMessageOther ==
    /\ uipc = "GetMessage"
    /\ msgq # <<>>
    /\ Head(msgq).type = "WebMessage"
    /\ msgq' = Tail(msgq)
    /\ cur' = [NoCur EXCEPT !.msg = Head(msgq).msg[1]]
    /\ uipc' = "msgcb"
    /\ hist' = [hist EXCEPT !.received = @ + 1]
    /\ UNCHANGED <<m, bindings, dispatchq, quitPosted, q, f, pc, arg, tasks,
                   ncalls, page>>

\* w.m.Lock(): line 258.
RunLock ==
    /\ uipc = "RunLock"
    /\ m = "free"
    /\ m' = UI
    /\ uipc' = "RunSwap"
    /\ UNCHANGED <<bindings, dispatchq, msgq, quitPosted, q, cur, f, pc, arg,
                   tasks, ncalls, page, hist>>

\* A swap that leaves the list in place.
SwappedKeeps(queue) == queue

\* What the swap leaves in w.dispatchq: line 260.
Swapped(queue) == <<>>

\* A loop that keeps w.m until the range loop is over.
RunUnlockDeferred == UI

\* w.m.Unlock() before the range loop: line 261.
RunUnlock == "free"

\* q := append([]func(){}, w.dispatchq...); w.dispatchq = []func(){};
\* w.m.Unlock(): lines 259-261.
RunSwap ==
    /\ uipc = "RunSwap"
    /\ q' = dispatchq
    /\ dispatchq' = Swapped(dispatchq)
    /\ m' = RunUnlock
    /\ uipc' = "RunRange"
    /\ hist' = [hist EXCEPT !.drains = @ + 1]
    /\ UNCHANGED <<bindings, msgq, quitPosted, cur, f, pc, arg, tasks, ncalls, page>>

\* A range loop that goes on into the live w.dispatchq.
RangedLive(local, queue) == IF local # <<>> THEN local ELSE queue

\* What the range loop of line 262 iterates over: the copy made under the
\* lock, not the live w.dispatchq.
Ranged(local, queue) == local

\* for _, v := range q: the next task's body starts, or the loop has run out
\* and Run goes back to GetMessageW (lines 262, 268-270).
RunRange ==
    /\ uipc = "RunRange"
    /\ LET rest == Ranged(q, dispatchq)
       IN  IF rest = <<>>
           THEN /\ uipc' = "GetMessage"
                /\ UNCHANGED <<q, cur, hist>>
           ELSE /\ uipc' = "RunTask"
                /\ cur' = [NoCur EXCEPT !.task = Head(rest)]
                /\ q' = Tail(rest)
                /\ hist' = [hist EXCEPT
                              !.started = Append(@, <<Head(rest), hist.drains, hist.wake>>)]
    /\ UNCHANGED <<m, bindings, dispatchq, msgq, quitPosted, f, pc, arg, tasks,
                   ncalls, page>>

\* Browser.Eval(js): the page runs
\*   window._rpc[id].resolve(arg) (or .reject(arg)); window._rpc[id] = undefined
\* A statement for an id with no pending promise throws in the page and
\* changes nothing.
\* The call whose promise window._rpc[id] holds, 0 when window._rpc or the
\* slot is undefined.
Pending(pg, id) ==
    IF pg.win = 0 THEN 0
    ELSE LET hit == {s \in pg.objs[pg.win].slots : s[1] = id}
         IN  IF hit = {} THEN 0 ELSE (CHOOSE s \in hit : TRUE)[2]

PageEval(pg, js) ==
    IF Pending(pg, js.id) = 0 THEN pg
    ELSE [pg EXCEPT !.objs[pg.win].slots = {s \in @ : s[1] # js.id},
                    !.settled = Append(@, js),
                    !.promises = Append(@, Pending(pg, js.id))]

\* v(): the body of the task at hand (line 263).  A plain task returns; a
\* task of msgcb calls w.Eval(js) (lines 99, 103, 107, 345-347) and returns;
\* a spawning task calls w.Dispatch with a new plain task.
RunTask ==
    /\ uipc = "RunTask"
    /\ pc[UI] = "idle"
    /\ LET t == tasks[cur.task]
       IN  CASE t.kind = "plain" ->
                  /\ uipc' = "RunRange"
                  /\ hist' = [hist EXCEPT !.finished = @ + 1]
                  /\ UNCHANGED <<pc, arg, tasks, page>>
             [] t.kind = "eval" ->
                  /\ uipc' = "RunRange"
                  /\ page' = PageEval(page, t.js)
                  /\ hist' = [hist EXCEPT
                                !.finished = @ + 1,
                                !.evald = Append(@, t.js),
                                !.settles = Append(@, <<cur.task, Pending(page, t.js.id),
                                                        page.loads>>)]
                  /\ UNCHANGED <<pc, arg, tasks>>
             [] t.kind = "spawn" ->
                  /\ tasks' = Append(tasks, Task("plain", NoJS))
                  /\ arg' = [arg EXCEPT ![UI] = [NoArg EXCEPT !.task = Len(tasks) + 1]]
                  /\ pc' = [pc EXCEPT ![UI] = "DispatchLock"]
                  /\ UNCHANGED <<uipc, page, hist>>
    /\ UNCHANGED <<m, bindings, dispatchq, msgq, quitPosted, q, cur, f, ncalls>>

\* Terminate (lines 273-275): PostQuitMessage(0), from wndproc on WMDestroy
\* (line 180) or from application code on the loop's thread.
Terminate ==
    /\ uipc # "Terminated"
    /\ ~quitPosted
    /\ quitPosted' = TRUE
    /\ UNCHANGED <<m, bindings, dispatchq, msgq, uipc, q, cur, f, pc, arg, tasks,
                   ncalls, page, hist>>


(***************************************************************************)
(* msgcb (lines 89-110) and callbinding (lines 112-170), called by the     *)
(* browser control on the loop's thread.                                   *)
(***************************************************************************)
\* A msgcb that logs the invalid message and goes on with the zero rpcMessage.
OnInvalidGoOn == "LookupLock"

\* Where msgcb is after json.Unmarshal failed: it has returned (line 93).
OnInvalid == "GetMessage"

\* json.Unmarshal of the envelope: a malformed message is logged and dropped
\* (lines 91-94); otherwise callbinding is entered.
MsgcbDecode ==
    /\ uipc = "msgcb"
    /\ IF cur.msg.wellformed
       THEN /\ uipc' = "LookupLock"
            /\ UNCHANGED <<cur, hist>>
       ELSE /\ uipc' = OnInvalid
            /\ cur' = IF OnInvalid = "GetMessage" THEN NoCur ELSE cur
            /\ hist' = [hist EXCEPT !.dropped = @ + 1]
    /\ UNCHANGED <<m, bindings, dispatchq, msgq, quitPosted, q, f, pc, arg, tasks,
                   ncalls, page>>

\* w.m.Lock(): line 113.
LookupLock ==
    /\ uipc = "LookupLock"
    /\ m = "free"
    /\ m' = UI
    /\ uipc' = "Lookup"
    /\ UNCHANGED <<bindings, dispatchq, msgq, quitPosted, q, cur, f, pc, arg,
                   tasks, ncalls, page, hist>>

\* w.bindings[name]: the entry, or none (ok = false) for a name not in the map.
BindingOf(table, name) ==
    IF name \in DOMAIN table THEN table[name] ELSE NoBinding

\* f, ok := w.bindings[d.Method]; w.m.Unlock(): lines 114-115.
Lookup ==
    /\ uipc = "Lookup"
    /\ f' = BindingOf(bindings, cur.msg.method)
    /\ m' = "free"
    /\ uipc' = "Call"
    /\ hist' = [hist EXCEPT
                  !.decoded = Append(@, <<cur.msg, BindingOf(bindings, cur.msg.method)>>)]
    /\ UNCHANGED <<bindings, dispatchq, msgq, quitPosted, q, cur, pc, arg, tasks,
                   ncalls, page>>

\* A msgcb with no branch for the successful result.
ResponseTasksErrOnly(d, r) ==
    IF r.err # NoErr \/ Marshal(r.res).err # NoErr
    THEN <<Task("eval", Response(d.id, r))>>
    ELSE <<>>

\* The closures msgcb hands to Dispatch for request d given callbinding's
\* result r: exactly one, in each of the three branches of lines 97-109.
ResponseTasks(d, r) == <<Task("eval", Response(d.id, r))>>

\* The rest of callbinding (lines 116-169), then msgcb builds its closure and
\* calls w.Dispatch (lines 96-109).
CallAndRespond ==
    /\ uipc = "Call"
    /\ pc[UI] = "idle"
    /\ LET r == callbinding(f, cur.msg.params)
           ts == ResponseTasks(cur.msg, r)
       IN  /\ hist' = [hist EXCEPT
                         !.invoked = IF r.invoked
                                     THEN Append(@, <<cur.msg.id, f.name, r.args>>)
                                     ELSE @,
                         !.resp = IF ts = <<>> THEN @
                                  ELSE Append(@, <<Len(tasks) + 1, hist.received>>)]
           /\ IF ts = <<>>
              THEN /\ uipc' = "GetMessage"
                   /\ UNCHANGED <<tasks, arg, pc>>
              ELSE /\ uipc' = "msgcbDispatch"
                   /\ tasks' = Append(tasks, ts[1])
                   /\ arg' = [arg EXCEPT ![UI] = [NoArg EXCEPT !.task = Len(tasks) + 1]]
                   /\ pc' = [pc EXCEPT ![UI] = "DispatchLock"]
    /\ f' = NoBinding
    /\ cur' = NoCur
    /\ UNCHANGED <<m, bindings, dispatchq, msgq, quitPosted, q, ncalls, page>>

(***************************************************************************)
(* The page: the script Bind hands to Init (lines 368-385) runs in every   *)
(* document the browser creates, before the document's own scripts.        *)
(***************************************************************************)
\* A script that makes its own RPC object whatever window._rpc holds.
BindRPCAlwaysNew(pg) ==
    [pg EXCEPT !.objs = Append(@, NewRPC), !.win = Len(pg.objs) + 1]

\* var RPC = window._rpc = (window._rpc || {nextSeq: 1}): line 369.
BindRPC(pg) ==
    IF pg.win # 0 THEN pg
    ELSE [pg EXCEPT !.objs = Append(@, NewRPC), !.win = Len(pg.objs) + 1]

\* The injected script for one name: window[name] closes over RPC.
InitScript(pg, name) ==
    LET p == BindRPC(pg) IN [p EXCEPT !.fn[name] = p.win]

RECURSIVE RunScripts(_, _)
RunScripts(pg, scripts) ==
    IF scripts = <<>> THEN pg
    ELSE RunScripts(InitScript(pg, Head(scripts)), Tail(scripts))

\* The browser creates a document (Navigate, lines 281-283, or a reload): the
\* window is new, and every script handed to Init so far runs in it.
PageLoad ==
    /\ page.loads < MaxLoads
    /\ page' = RunScripts([NoPage EXCEPT !.scripts = page.scripts,
                                         !.loads = page.loads + 1,
                                         !.settled = page.settled,
                                         !.promises = page.promises],
                          page.scripts)
    /\ UNCHANGED <<m, bindings, dispatchq, msgq, quitPosted, uipc, q, cur, f, pc,
                   arg, tasks, ncalls, hist>>

\* RPC.nextSeq++: line 371.
NextSeq(n) == n + 1

\* A script of the document calls window[name](params): lines 370-384.
\*   var seq = RPC.nextSeq++; RPC[seq] = {resolve, reject};
\*   window.external.invoke(JSON.stringify({id: seq, method: name, params}))
ScriptCall(name, params) ==
    /\ ncalls.req < MaxReqs
    /\ page.fn[name] # 0
    /\ LET o == page.fn[name]
           seq == page.objs[o].nextSeq
       IN  /\ page' = [page EXCEPT
                         !.objs[o] = [nextSeq |-> NextSeq(seq),
                                      slots |-> {s \in @.slots : s[1] # seq}
                                                \cup {<<seq, ncalls.req + 1>>}]]
           /\ msgq' = Append(msgq, WebMsg(Envelope(seq, name, params)))
           /\ hist' = [hist EXCEPT
                         !.sent = Append(@, <<Envelope(seq, name, params), page.loads>>)]
    /\ ncalls' = [ncalls EXCEPT !.req = @ + 1]
    /\ UNCHANGED <<m, bindings, dispatchq, quitPosted, uipc, q, cur, f, pc, arg,
                   tasks>>

\* A script of the document calls window.external.invoke(text) itself, with
\* any text it chooses.
ScriptInvoke(msg) ==
    /\ ncalls.req < MaxReqs
    /\ page.loads > 0
    /\ ncalls' = [ncalls EXCEPT !.req = @ + 1]
    /\ msgq' = Append(msgq, WebMsg(msg))
    /\ hist' = [hist EXCEPT !.sent = Append(@, <<msg, page.loads>>)]
    /\ UNCHANGED <<m, bindings, dispatchq, quitPosted, uipc, q, cur, f, pc, arg,
                   tasks, page>>

(***************************************************************************)
(* Bind (lines 356-388), by a caller thread.                               *)
(***************************************************************************)
\* A Bind that lets a function with three results through.
BindRefusesOverThree(v) == ~v.func \/ Len(v.out) > 3

\* A Bind that tests the kind only.
BindRefusesKindOnly(v) == ~v.func

\* The two tests of lines 358-363: TRUE when Bind returns an error.
BindRefuses(v) == ~v.func \/ Len(v.out) > 2

CallBind(c, name, v) ==
    /\ pc[c] = "idle"
    /\ ncalls.bind < MaxBinds
    /\ ncalls' = [ncalls EXCEPT !.bind = @ + 1]
    /\ IF BindRefuses(v)
       THEN /\ hist' = [hist EXCEPT !.binderrs = @ + 1,
                                    !.binds = Append(@, <<name, v, TRUE>>)]
            /\ UNCHANGED <<pc, arg>>
       ELSE /\ pc' = [pc EXCEPT ![c] = "BindLock"]
            /\ arg' = [arg EXCEPT ![c] = [NoArg EXCEPT !.name = name, !.val = v]]
            /\ UNCHANGED hist
    /\ UNCHANGED <<m, bindings, dispatchq, msgq, quitPosted, uipc, q, cur, f,
                   tasks, page>>

\* w.m.Lock(): line 364.
BindLock(c) ==
    /\ pc[c] = "BindLock"
    /\ m = "free"
    /\ m' = c
    /\ pc' = [pc EXCEPT ![c] = "BindInsert"]
    /\ UNCHANGED <<bindings, dispatchq, msgq, quitPosted, uipc, q, cur, f, arg,
                   tasks, ncalls, page, hist>>

\* A table that keeps the entry a name already has.
InsertedIfAbsent(table, name, v) ==
    IF table[name] = NoBinding THEN [table EXCEPT ![name] = v] ELSE table

\* w.bindings[name] = f: line 365.
Inserted(table, name, v) == [table EXCEPT ![name] = v]

\* w.bindings[name] = f; w.m.Unlock(): lines 365-366.
BindInsert(c) ==
    /\ pc[c] = "BindInsert"
    /\ bindings' = Inserted(bindings, arg[c].name, arg[c].val)
    /\ m' = "free"
    /\ pc' = [pc EXCEPT ![c] = "BindInit"]
    /\ hist' = [hist EXCEPT !.inserted = Append(@, <<arg[c].name, arg[c].val>>)]
    /\ UNCHANGED <<dispatchq, msgq, quitPosted, uipc, q, cur, f, arg, tasks,
                   ncalls, page>>

\* w.Init(script defining window[name]); return nil: lines 368-387.
BindInit(c) ==
    /\ pc[c] = "BindInit"
    /\ page' = [page EXCEPT !.scripts = Append(@, arg[c].name)]
    /\ hist' = [hist EXCEPT !.inits = @ \cup {arg[c].name},
                            !.binds = Append(@, <<arg[c].name, arg[c].val, FALSE>>)]
    /\ pc' = [pc EXCEPT ![c] = "idle"]
    /\ arg' = [arg EXCEPT ![c] = NoArg]
    /\ UNCHANGED <<m, bindings, dispatchq, msgq, quitPosted, uipc, q, cur, f,
                   tasks, ncalls>>

(***************************************************************************)
(* The specifications.                                                     *)
(***************************************************************************)
\* The closures application code dispatches.
TaskKinds == {"plain", "spawn"}

\* Run while no WMQuit arrives, and the Dispatch calls made on its thread.
ServeNext ==
    \/ GetMessageWake
    \/ RunLock
    \/ RunSwap
    \/ RunRange
    \/ RunTask
    \/ DispatchLock(UI)
    \/ DispatchAppend(UI)
    \/ DispatchPost(UI)

\* Run, and the Dispatch calls made on its thread.
LoopNext ==
    \/ ServeNext
    \/ GetMessageQuit

\* The browser control's callback on the loop's thread.
RPCNext ==
    \/ GetMessageOther
    \/ MsgcbDecode
    \/ LookupLock
    \/ Lookup
    \/ CallAndRespond

\* The dispatch queue: caller threads dispatch tasks while Run drains them.
Next ==
    \/ LoopNext
    \/ \E c \in Callers : DispatchLock(c)
    \/ \E c \in Callers : DispatchAppend(c)
    \/ \E c \in Callers : DispatchPost(c)
    \/ \E c \in Callers, kind \in TaskKinds : CallDispatch(c, kind)
    \/ Terminate

Spec == Init /\ [][Next]_vars

\* Every thread that can take a step eventually does (the Go scheduler and
\* the operating system starve no runnable thread); nothing obliges
\* application code to call Dispatch or Terminate.
Fairness ==
    /\ WF_vars(LoopNext)
    /\ \A c \in Callers :
          WF_vars(DispatchLock(c) \/ DispatchAppend(c) \/ DispatchPost(c))

FairSpec == Spec /\ Fairness

(***************************************************************************)
(* The RPC bridge on its own: one binding table and one message from the   *)
(* page, drawn from every handler and every parameter list up to           *)
(* MaxParams, then processed by msgcb and the loop.                        *)
(***************************************************************************)
RECURSIVE ParamLists(_)
ParamLists(n) ==
    IF n = 0 THEN {<<>>}
    ELSE ParamLists(n - 1) \cup
         {Append(ps, v) : ps \in {l \in ParamLists(n - 1) : Len(l) = n - 1}, v \in JSONVals}

Messages(id) ==
    {Envelope(id, method, ps) : method \in Methods, ps \in ParamLists(MaxParams)}
    \cup {Malformed}

InitRPC ==
    /\ m = "free"
    /\ \E h \in Handlers \cup {NoBinding} :
          /\ bindings = [n \in Methods |-> IF n \in BindNames THEN h ELSE NoBinding]
          /\ ncalls = [dispatch |-> 0, bind |-> IF h = NoBinding THEN 0 ELSE 1, req |-> 1]
          /\ hist = [NoHist EXCEPT
                       !.inits = IF h = NoBinding THEN {} ELSE BindNames,
                       !.binds = IF h = NoBinding THEN <<>> ELSE <<<<"f", h, FALSE>>>>,
                       !.inserted = IF h = NoBinding THEN <<>> ELSE <<<<"f", h>>>>]
    /\ dispatchq = <<>>
    /\ \E msg \in Messages(1) : msgq = <<WebMsg(msg)>>
    /\ quitPosted = FALSE
    /\ uipc = "GetMessage"
    /\ q = <<>>
    /\ cur = NoCur
    /\ f = NoBinding
    /\ pc = [t \in Threads |-> "idle"]
    /\ arg = [t \in Threads |-> NoArg]
    /\ tasks = <<>>
    /\ page = [NoPage EXCEPT !.loads = 1,
                             !.objs = <<[nextSeq |-> 2, slots |-> {<<1, 1>>}]>>,
                             !.win = 1]

NextRPC ==
    \/ LoopNext
    \/ RPCNext
    \/ Terminate

SpecRPC == InitRPC /\ [][NextRPC]_vars

FairSpecRPC == SpecRPC /\ WF_vars(LoopNext \/ RPCNext)

(***************************************************************************)
(* Bind at work: caller threads bind values to "f" while a document sends   *)
(* messages and the loop's thread serves them; the window is not closed.   *)
(***************************************************************************)
\* What application code hands to Bind: functions with one and two results,
\* a second result that is no error, three results, and no function at all.
BindArgs == {hSum, hFail, hPair, hThree, NotFunc}

\* One thread binds any of them, the other binds hFail to the same name.
BoundBy(c) == IF c = "c1" THEN BindArgs ELSE {hFail}

\* What the document sends: the n-th message is a request numbered n, or text
\* that is no envelope.
BindMsgs(n) == {Envelope(n, "f", <<>>), Malformed}

\* Application code has navigated to a document before the first Bind.
InitBind ==
    /\ m = "free"
    /\ bindings = [n \in Methods |-> NoBinding]
    /\ dispatchq = <<>>
    /\ msgq = <<>>
    /\ quitPosted = FALSE
    /\ uipc = "GetMessage"
    /\ q = <<>>
    /\ cur = NoCur
    /\ f = NoBinding
    /\ pc = [t \in Threads |-> "idle"]
    /\ arg = [t \in Threads |-> NoArg]
    /\ tasks = <<>>
    /\ ncalls = [dispatch |-> 0, bind |-> 0, req |-> 0]
    /\ page = [NoPage EXCEPT !.loads = 1]
    /\ hist = NoHist

NextBind ==
    \/ ServeNext
    \/ RPCNext
    \/ \E c \in Callers : \E v \in BoundBy(c) : CallBind(c, "f", v)
    \/ \E c \in Callers : BindLock(c)
    \/ \E c \in Callers : BindInsert(c)
    \/ \E c \in Callers : BindInit(c)
    \/ \E msg \in BindMsgs(ncalls.req + 1) : ScriptInvoke(msg)

SpecBind == InitBind /\ [][NextBind]_vars

(***************************************************************************)
(* The page at work: Bind has returned for a list of names, then the       *)
(* browser creates documents whose scripts call the bound names while the  *)
(* loop's thread serves the requests.                                      *)
(***************************************************************************)
\* The names of the Bind calls made, in order: any names, repeated or not.
RECURSIVE NameLists(_)
NameLists(n) ==
    IF n = 0 THEN {<<>>}
    ELSE NameLists(n - 1) \cup
         {Append(ns, x) : ns \in {l \in NameLists(n - 1) : Len(l) = n - 1}, x \in Methods}

\* The handler bound to each name: one that resolves, one that rejects.
PageHandler(name) == IF name = "f" THEN hSum ELSE hFail

InitPage ==
    /\ m = "free"
    /\ \E names \in NameLists(MaxBinds) \ {<<>>} :
          /\ bindings = [n \in Methods |->
                           IF \E k \in DOMAIN names : names[k] = n
                           THEN PageHandler(n) ELSE NoBinding]
          /\ ncalls = [dispatch |-> 0, bind |-> Len(names), req |-> 0]
          /\ page = [NoPage EXCEPT !.scripts = names]
          /\ hist = [NoHist EXCEPT
                       !.inits = {names[k] : k \in DOMAIN names},
                       !.binds = [k \in DOMAIN names |->
                                    <<names[k], PageHandler(names[k]), FALSE>>],
                       !.inserted = [k \in DOMAIN names |->
                                       <<names[k], PageHandler(names[k])>>]]
    /\ dispatchq = <<>>
    /\ msgq = <<>>
    /\ quitPosted = FALSE
    /\ uipc = "GetMessage"
    /\ q = <<>>
    /\ cur = NoCur
    /\ f = NoBinding
    /\ pc = [t \in Threads |-> "idle"]
    /\ arg = [t \in Threads |-> NoArg]
    /\ tasks = <<>>

NextPage ==
    \/ ServeNext
    \/ RPCNext
    \/ PageLoad
    \/ \E name \in Methods : ScriptCall(name, <<>>)

SpecPage == InitPage /\ [][NextPage]_vars

(***************************************************************************)
(* The bridge and the queue together: hSum is bound to "f" and the         *)
(* document is loaded; its script calls f while another thread dispatches  *)
(* tasks of its own, plain ones and ones whose body calls Dispatch.        *)
(***************************************************************************)
InitMix ==
    /\ m = "free"
    /\ bindings = [n \in Methods |-> IF n = "f" THEN hSum ELSE NoBinding]
    /\ dispatchq = <<>>
    /\ msgq = <<>>
    /\ quitPosted = FALSE
    /\ uipc = "GetMessage"
    /\ q = <<>>
    /\ cur = NoCur
    /\ f = NoBinding
    /\ pc = [t \in Threads |-> "idle"]
    /\ arg = [t \in Threads |-> NoArg]
    /\ tasks = <<>>
    /\ ncalls = [dispatch |-> 0, bind |-> 1, req |-> 0]
    /\ page = RunScripts([NoPage EXCEPT !.scripts = <<"f">>, !.loads = 1], <<"f">>)
    /\ hist = [NoHist EXCEPT !.inits = {"f"},
                             !.binds = <<<<"f", hSum, FALSE>>>>,
                             !.inserted = <<<<"f", hSum>>>>]

\* Application code dispatches a task of its own from another thread.
CallOther(c, kind) ==
    /\ ncalls.dispatch < MaxOther
    /\ CallDispatch(c, kind)

NextMix ==
    \/ ServeNext
    \/ RPCNext
    \/ ScriptCall("f", <<>>)
    \/ \E kind \in TaskKinds : CallOther("c1", kind)
    \/ DispatchLock("c1")
    \/ DispatchAppend("c1")
    \/ DispatchPost("c1")

SpecMix == InitMix /\ [][NextMix]_vars


(***************************************************************************)
(* Properties of the dispatch queue (Spec, FairSpec).                      *)
(***************************************************************************)
Range(seq) == {seq[i] : i \in DOMAIN seq}
\* The tasks appended to w.dispatchq so far, and those whose body has started.
AppendedIds == [i \in DOMAIN hist.appended |-> hist.appended[i][1]]
StartedIds == [i \in DOMAIN hist.started |-> hist.started[i][1]]
\* How many times the body of task id has started.
Starts(id) == Cardinality({i \in DOMAIN hist.started : hist.started[i][1] = id})
\* The tasks whose Dispatch has appended and posted its wake message.
AcceptedIds == Range(AppendedIds) \ {arg[t].task : t \in {u \in Threads : pc[u] = "DispatchPost"}}
WakePending == \E i \in DOMAIN msgq : msgq[i].type = "WMApp"
\* Run is back in GetMessageW, every posted wake message was processed and
\* no quit message was received.
Quiescent == uipc = "GetMessage" /\ ~WakePending /\ ~hist.quit

\* C1: whatever the interleaving of Dispatch callers and the Run loop, no task
\* body ever starts twice, and once the loop has processed every posted wake
\* message without having received quit, every task accepted by Dispatch has
\* been executed exactly once (started once, and returned).
C1_ExactlyOnce ==
    /\ \A id \in DOMAIN tasks : Starts(id) <= 1
    /\ Quiescent =>
          /\ \A id \in AcceptedIds : Starts(id) = 1
          /\ hist.finished = Len(hist.started)

\* Three tasks from both caller threads and from a task body have all run.
C1_Witness ==
    /\ Quiescent
    /\ Len(hist.started) = 3
    /\ \E id \in DOMAIN tasks : tasks[id].kind = "spawn"
    /\ hist.drains >= 2

\* C2: task bodies start in the order of the appends to dispatchq (the
\* started tasks are a prefix of the appended ones, across drains as well as
\* within one), and a body starts only after every body started before it has
\* returned.
C2_FIFO ==
    /\ Len(StartedIds) <= Len(AppendedIds)
    /\ \A i \in DOMAIN StartedIds : StartedIds[i] = AppendedIds[i]
    /\ hist.finished = Len(hist.started) - (IF uipc = "RunTask" THEN 1 ELSE 0)

\* Three tasks have run, in two drains at least, the second one appended
\* while the first drain was under way.
C2_Witness ==
    /\ Len(hist.started) = 3
    /\ hist.started[1][2] # hist.started[3][2]
    /\ hist.appended[2][2] # 0

\* C3: under fair scheduling, every task appended by Dispatch is eventually
\* executed, unless the loop receives the quit message first.
C3_EventuallyRun ==
    \A id \in 1..MaxTasks :
        (id \in Range(AppendedIds)) ~> (id \in Range(StartedIds) \/ hist.quit)

\* A task was appended and has run.
C3_Witness ==
    /\ Len(hist.started) = 3
    /\ ~hist.quit
    /\ ~quitPosted

\* Task id was appended while drain d was under way.
DuringDrain(id, d) == d # 0 /\ <<id, d>> \in Range(hist.appended)

\* C4 as stated: a task appended while a drain is under way is executed by a
\* later drain, and that drain is the one its own wake message triggers.
C4_OwnWake ==
    \A i \in DOMAIN hist.started :
        LET s == hist.started[i]
        IN  \A d \in 1..hist.drains :
                DuringDrain(s[1], d) => s[2] > d /\ s[3] = s[1]

\* C4, amended: a task appended while a drain is under way is not executed in
\* that drain: as long as the drain lasts it stays in dispatchq, outside the
\* list being drained, and the drain that executes it is the next one, served
\* for the next wake message the loop receives, which need not be the task's
\* own.
C4_LaterDrain ==
    \A id \in DOMAIN tasks : \A d \in 1..hist.drains :
        DuringDrain(id, d) =>
            /\ (Draining /\ hist.drains = d) =>
                  /\ id \in Range(dispatchq)
                  /\ id \notin Range(q)
                  /\ id \notin Range(StartedIds)
            /\ \A i \in DOMAIN hist.started :
                  hist.started[i][1] = id => hist.started[i][2] = d + 1

\* A task dispatched by a task body has run, in a later drain.
C4_Witness ==
    \E i \in DOMAIN hist.started :
        /\ DuringDrain(hist.started[i][1], hist.started[i][2] - 1)
        /\ \E j \in DOMAIN hist.started :
              /\ hist.started[j][2] = hist.started[i][2] - 1
              /\ tasks[hist.started[j][1]].kind = "spawn"

\* C5: once the loop has received the quit message, Run has returned and
\* stays so: no swap, no task body and no evaluation happens afterwards, and
\* the tasks in dispatchq stay there.
C5_Terminated ==
    [][hist.quit =>
          /\ uipc = "Terminated" /\ uipc' = "Terminated"
          /\ hist'.drains = hist.drains
          /\ hist'.started = hist.started
          /\ hist'.evald = hist.evald
          /\ q' = q
          /\ Len(dispatchq') >= Len(dispatchq)
          /\ \A i \in DOMAIN dispatchq : dispatchq'[i] = dispatchq[i]]_vars

\* Run has returned after running a task, with two tasks left in dispatchq
\* and a wake message unread.
C5_Witness ==
    /\ uipc = "Terminated"
    /\ Len(dispatchq) >= 2
    /\ WakePending
    /\ hist.started # <<>>


(***************************************************************************)
(* Properties of the RPC bridge (SpecRPC, FairSpecRPC).                    *)
(***************************************************************************)
\* The closures msgcb made for request id, and the evaluations of a
\* statement for it.
TasksFor(id) == {i \in DOMAIN tasks : tasks[i].kind = "eval" /\ tasks[i].js.id = id}
EvaldFor(id) == {i \in DOMAIN hist.evald : hist.evald[i].id = id}
InvokedFor(id) == {i \in DOMAIN hist.invoked : hist.invoked[i][1] = id}
\* The statement of the closure made for request id.
StatementFor(id) == tasks[CHOOSE i \in TasksFor(id) : TRUE].js
\* The requests callbinding has looked up: unbound ones and bound ones.
Decoded == Range(hist.decoded)
Unbound == {d \in Decoded : d[2] = NoBinding}
Bound == {d \in Decoded : d[2] # NoBinding}
\* msgcb is done with request d: callbinding has returned and the closure,
\* if any, was made.
Responded(d) == ~(uipc = "Call" /\ cur.msg = d[1])

\* C6 as stated: for a request whose method is not bound, msgcb enqueues no
\* task, and neither resolve nor reject is ever evaluated for its id.
C6_NoResponse ==
    \A d \in Unbound : TasksFor(d[1].id) = {} /\ EvaldFor(d[1].id) = {}

\* C6, amended: for a request whose method is not bound no handler is
\* invoked and the outcome is Void, which msgcb answers like any other
\* successful outcome: it enqueues exactly one task, whose statement resolves
\* the request's promise with null; reject is never evaluated for its id.
C6_ResolveNull ==
    \A d \in Unbound :
        /\ InvokedFor(d[1].id) = {}
        /\ Cardinality(TasksFor(d[1].id)) <= 1
        /\ Responded(d) =>
              /\ Cardinality(TasksFor(d[1].id)) = 1
              /\ StatementFor(d[1].id) = Resolve(d[1].id, JNull)
        /\ \A i \in EvaldFor(d[1].id) : hist.evald[i] = Resolve(d[1].id, JNull)

\* The page has evaluated resolve(null) for a request to an unbound method.
C6_Witness ==
    \E d \in Unbound :
        /\ hist.evald = <<Resolve(d[1].id, JNull)>>
        /\ page.settled = hist.evald

\* C7: for a request whose method is bound, msgcb enqueues exactly one
\* response task, a resolve or a reject for the request's id, and the
\* statement is eventually evaluated unless the loop receives quit first.
C7_OneResponse ==
    /\ [](\A d \in Bound :
            /\ Cardinality(TasksFor(d[1].id)) <= 1
            /\ Cardinality(EvaldFor(d[1].id)) <= 1
            /\ Responded(d) =>
                  /\ Cardinality(TasksFor(d[1].id)) = 1
                  /\ StatementFor(d[1].id).op \in {"resolve", "reject"})
    /\ \A id \in 1..MaxReqs :
          (\E d \in Bound : d[1].id = id) ~> (EvaldFor(id) # {} \/ hist.quit)

\* The statement for a request to a bound method was evaluated.
C7_Witness ==
    \E d \in Bound :
        /\ Cardinality(EvaldFor(d[1].id)) = 1
        /\ hist.evald[1].op = "resolve"
        /\ hist.invoked # <<>>

\* The claim's arity rule: n parameters suit handler h.
ArityOK(h, n) == IF h.variadic THEN n >= Len(h.in) - 1 ELSE n = Len(h.in)
ArityError(id) == Reject(id, "function arguments mismatch")

\* C8: the handler is invoked only if the number of parameters suits it (the
\* declared count exactly, or at least the declared count less one for a
\* variadic handler); otherwise, and only then, the outcome is the error
\* "function arguments mismatch" and the handler is not invoked.
C8_Arity ==
    \A d \in Bound :
        LET id == d[1].id
            ok == ArityOK(d[2], Len(d[1].params))
        IN  /\ InvokedFor(id) # {} => ok
            /\ Responded(d) => (~ok <=> StatementFor(id) = ArityError(id))

\* A handler whose only parameter is variadic was invoked with no parameters,
\* and its result was delivered.
C8_Witness ==
    \E d \in Bound :
        /\ d[2] = hSum
        /\ d[1].params = <<>>
        /\ hist.invoked = <<<<d[1].id, "sum", <<>>>>>>
        /\ hist.evald = <<Resolve(d[1].id, JNum(0))>>

\* The parameters of request d that do not decode to the type the handler
\* declares at their position.
Undecodable(d) ==
    {i \in DOMAIN d[1].params :
        UnmarshalParam(d[1].params[i], ParamType(d[2], i)).err # NoErr}

\* C9: if a parameter fails to decode to the handler's declared type, at any
\* position, the handler is not invoked and the outcome is the decode error.
C9_DecodeFailure ==
    \A d \in Bound :
        (ArityOK(d[2], Len(d[1].params)) /\ Undecodable(d) # {}) =>
            /\ InvokedFor(d[1].id) = {}
            /\ Responded(d) =>
                  \E i \in Undecodable(d) :
                      StatementFor(d[1].id) =
                          Reject(d[1].id,
                                 UnmarshalParam(d[1].params[i], ParamType(d[2], i)).err)

\* The second parameter of a two-parameter handler failed to decode (the
\* first one decoded), and the rejection was evaluated.
C9_Witness ==
    \E d \in Bound :
        /\ d[2] = hAdd
        /\ Len(d[1].params) = 2
        /\ Undecodable(d) = {2}
        /\ hist.invoked = <<>>
        /\ EvaldFor(d[1].id) # {}

\* The statement the claim expects for a value result of request id.
ResolveValue(id, val) == Resolve(id, Marshal(val).b)
\* The same, with the encoding of the value allowed to fail.
ResolveEncoded(id, val) ==
    IF Marshal(val).err = NoErr THEN Resolve(id, Marshal(val).b)
    ELSE Reject(id, Marshal(val).err)

\* The requests whose handler was invoked and answered, and what it returned.
Answered == {d \in Bound : InvokedFor(d[1].id) # {} /\ Responded(d)}
Returned(d) == Call(d[2], hist.invoked[CHOOSE i \in InvokedFor(d[1].id) : TRUE][3])

\* C10 as stated: resolve(null) for no result; for one result of error type
\* reject(message) or resolve(null); for one result of another type
\* resolve(value); for two results resolve(first value) when the error is nil
\* and reject(message) when it is not.
C10_Shapes ==
    \A d \in Answered :
        LET id == d[1].id
            out == d[2].out
            res == Returned(d)
            js == StatementFor(id)
        IN  /\ Len(out) = 0 => js = Resolve(id, JNull)
            /\ (Len(out) = 1 /\ out[1] = "error") =>
                  js = IF res[1] = NilError THEN Resolve(id, JNull)
                       ELSE Reject(id, res[1].v)
            /\ (Len(out) = 1 /\ out[1] # "error") => js = ResolveValue(id, res[1])
            /\ (Len(out) = 2 /\ out[2] = "error") =>
                  js = IF res[2] = NilError THEN ResolveValue(id, res[1])
                       ELSE Reject(id, res[2].v)

\* C10, amended: as stated, except that a value result is delivered as
\* resolve(value) only when the value encodes to JSON; when it does not, the
\* response is reject(message of the encoding error).
C10_ShapesEncodable ==
    \A d \in Answered :
        LET id == d[1].id
            out == d[2].out
            res == Returned(d)
            js == StatementFor(id)
        IN  /\ Len(out) = 0 => js = Resolve(id, JNull)
            /\ (Len(out) = 1 /\ out[1] = "error") =>
                  js = IF res[1] = NilError THEN Resolve(id, JNull)
                       ELSE Reject(id, res[1].v)
            /\ (Len(out) = 1 /\ out[1] # "error") => js = ResolveEncoded(id, res[1])
            /\ (Len(out) = 2 /\ out[2] = "error") =>
                  js = IF res[2] = NilError THEN ResolveEncoded(id, res[1])
                       ELSE Reject(id, res[2].v)

\* A handler returned a value that does not encode, and the page has
\* evaluated the rejection with the encoding error.
C10_Witness ==
    \E d \in Answered :
        /\ d[2] = hChan
        /\ hist.evald = <<Reject(d[1].id, "json: unsupported type: chan int")>>

(***************************************************************************)
(* Properties of msgcb and Bind while both are at work (SpecBind).         *)
(***************************************************************************)
\* msgcb has returned for the k-th message the page sent.
Handled(k) ==
    \/ k < hist.received
    \/ k = hist.received /\ uipc \notin {"msgcb", "LookupLock", "Lookup", "Call"}

\* The closures msgcb dispatched for the k-th message.
TasksOf(k) == {r \in Range(hist.resp) : r[2] = k}

\* C11: a message that is no envelope is dropped: the step that drops it
\* returns from msgcb and changes neither w.dispatchq nor w.bindings, hands no
\* closure to Dispatch, invokes no handler and evaluates nothing, and no
\* closure is ever dispatched for it; every envelope msgcb has handled, before
\* or after a dropped message, has exactly one closure, carrying its id.
C11_Dropped ==
    /\ [][hist'.dropped # hist.dropped =>
            /\ uipc' = "GetMessage"
            /\ dispatchq' = dispatchq
            /\ bindings' = bindings
            /\ tasks' = tasks
            /\ pc'[UI] = "idle"
            /\ hist'.invoked = hist.invoked
            /\ hist'.evald = hist.evald]_vars
    /\ [](\A k \in DOMAIN hist.sent :
            LET msg == hist.sent[k][1]
            IN  /\ ~msg.wellformed => TasksOf(k) = {}
                /\ msg.wellformed /\ Handled(k) =>
                      /\ Cardinality(TasksOf(k)) = 1
                      /\ \A r \in TasksOf(k) : tasks[r[1]].js.id = msg.id)

\* A message that is no envelope was dropped, and the request sent after it
\* was answered: its statement was evaluated.
C11_Witness ==
    /\ Len(hist.sent) = 2
    /\ ~hist.sent[1][1].wellformed
    /\ hist.sent[2][1].wellformed
    /\ hist.dropped = 1
    /\ \E r \in TasksOf(2) : tasks[r[1]].js \in Range(hist.evald)

\* A value Bind is to refuse: no function, or a function with more than two
\* results.
Unbindable(v) == ~v.func \/ Len(v.out) > 2

\* C12: a Bind of a value that is no function, or of a function with more
\* than two results, returns an error in the calling step: the binding table,
\* the scripts handed to Init and the lock are as they were (a handler bound
\* to the name before stays bound), and the value is never in the table.
C12_BindRefused ==
    /\ [](\A k \in DOMAIN hist.binds :
             Unbindable(hist.binds[k][2]) => hist.binds[k][3])
    /\ [](\A n \in Methods : ~Unbindable(bindings[n]) \/ bindings[n] = NoBinding)
    /\ [][(Len(hist'.binds) > Len(hist.binds) /\ hist'.binds[Len(hist'.binds)][3]) =>
            /\ bindings' = bindings
            /\ page' = page
            /\ hist'.inits = hist.inits
            /\ hist'.inserted = hist.inserted
            /\ m' = m
            /\ pc' = pc]_vars

\* hSum was bound to "f", then a Bind of a function with three results (or
\* of a value that is no function) returned an error, and hSum is still bound.
C12_Witness ==
    /\ Len(hist.binds) = 2
    /\ hist.binds[1] = <<"f", hSum, FALSE>>
    /\ hist.binds[2] \in {<<"f", hThree, TRUE>>, <<"f", NotFunc, TRUE>>}
    /\ bindings["f"] = hSum
    /\ page.scripts = <<"f">>

\* A function with two results whose second is no error.
NotErrorPair(v) == v.func /\ Len(v.out) = 2 /\ ~ImplementsError(v, 2)

\* C13: a function with two results whose second is no error is refused at
\* bind time: its Bind returns an error, it is never in the binding table,
\* and it is never invoked.
C13_PairRefused ==
    /\ \A k \in DOMAIN hist.binds :
          NotErrorPair(hist.binds[k][2]) => hist.binds[k][3]
    /\ \A n \in Methods : ~NotErrorPair(bindings[n])
    /\ \A i \in DOMAIN hist.invoked :
          \A v \in BindArgs : NotErrorPair(v) => hist.invoked[i][2] # v.name

\* Bind accepted func pair() (int, int), and a request then invoked it before
\* callbinding reported "second return value must be an error".
C13_Invoked ==
    /\ <<"f", hPair, FALSE>> \in Range(hist.binds)
    /\ \E i \in DOMAIN hist.invoked : hist.invoked[i][2] = "pair"
    /\ Reject(1, "second return value must be an error") \in Range(hist.evald)

\* The value of the last write to w.bindings[name] so far, NoBinding if none.
LastInserted(name) ==
    LET ks == {k \in DOMAIN hist.inserted : hist.inserted[k][1] = name}
    IN  IF ks = {} THEN NoBinding
        ELSE hist.inserted[CHOOSE k \in ks : \A j \in ks : j <= k][2]

\* C14: the last registration wins.  A lookup finds the value of the last
\* write to the name (so after Bind(name, h2) has returned no lookup finds an
\* earlier h1); the value a lookup found stays callbinding's f whatever Bind
\* does meanwhile, and the call ends with that value invoked and its response
\* handed to Dispatch.
C14_LastWins ==
    /\ [][(uipc = "Lookup" /\ uipc' = "Call") =>
             f' = LastInserted(cur.msg.method)]_vars
    /\ [][(uipc = "Call" /\ uipc' = "Call") => f' = f]_vars
    /\ [][(uipc = "Call" /\ uipc' # "Call") =>
            LET found == hist.decoded[Len(hist.decoded)][2]
                r == callbinding(found, cur.msg.params)
            IN  /\ tasks' = Append(tasks, Task("eval", Response(cur.msg.id, r)))
                /\ hist'.invoked = IF r.invoked
                                   THEN Append(hist.invoked,
                                               <<cur.msg.id, found.name, r.args>>)
                                   ELSE hist.invoked]_vars

\* A request found hSum and is still inside callbinding while a Bind of hFail
\* to the same name has written the table and returned.
C14_Witness ==
    /\ uipc = "Call"
    /\ f = hSum
    /\ bindings["f"] = hFail
    /\ hist.binds = <<<<"f", hSum, FALSE>>, <<"f", hFail, FALSE>>>>

\* A function with at most two results.
AtMostTwo(v) == v.func /\ Len(v.out) <= 2

\* C20: every entry of the binding table, and every value a lookup found, is
\* a function with at most two results, so no response is the rejection
\* "unexpected number of return values".
C20_AtMostTwoResults ==
    /\ \A n \in Methods : bindings[n] # NoBinding => AtMostTwo(bindings[n])
    /\ f # NoBinding => AtMostTwo(f)
    /\ \A i \in DOMAIN tasks :
          tasks[i].js.arg # jsString("unexpected number of return values")

\* Bind was called with a function of three results and with one of two;
\* the table holds the latter, and a request to it was answered.
C20_Witness ==
    /\ <<"f", hThree, TRUE>> \in Range(hist.binds)
    /\ bindings["f"] = hFail
    /\ Reject(1, "boom") \in Range(hist.evald)

(***************************************************************************)
(* Properties of the injected script and its promises (SpecPage).          *)
(***************************************************************************)
\* The calls (messages, by their place in hist.sent) made in document d.
CallsIn(d) == {k \in DOMAIN hist.sent : hist.sent[k][2] = d}

\* The pending promises of the document: <<RPC object, id, call>>.
PendingPromises ==
    UNION {{<<o, s[1], s[2]>> : s \in page.objs[o].slots} : o \in DOMAIN page.objs}

\* C15: in each document the calls of the bound names, whatever the names and
\* however often a name was bound, carry the ids 1, 2, 3, ... in the order
\* they were made (one counter, starting at 1, strictly increasing), and no
\* two pending promises share an id.
C15_OneCounter ==
    /\ \A d \in 1..page.loads : \A k \in CallsIn(d) :
          hist.sent[k][1].id = Cardinality({j \in CallsIn(d) : j <= k})
    /\ \A p1, p2 \in PendingPromises : p1[2] = p2[2] => p1 = p2

\* Two scripts were injected, and one document has called "f" and then "g":
\* the requests carry the ids 1 and 2 and both promises are pending.
C15_Witness ==
    /\ Len(page.scripts) = 2
    /\ Len(hist.sent) = 2
    /\ hist.sent[1] = <<Envelope(1, "f", <<>>), page.loads>>
    /\ hist.sent[2] = <<Envelope(2, "g", <<>>), page.loads>>
    /\ Cardinality(PendingPromises) = 2

\* The message (by its place in hist.sent) the closure `task` answers.
RequestOf(task) == (CHOOSE r \in Range(hist.resp) : r[1] = task)[2]

\* C16: a response settles the promise its own request stored under the id
\* and no other; each promise is settled at most once; and once a response
\* has settled and cleared slot N of a document, no later response addresses
\* slot N of that document.
C16_OwnSlot ==
    /\ \A k \in DOMAIN hist.settles :
          hist.settles[k][2] \in {0, RequestOf(hist.settles[k][1])}
    /\ \A i, j \in DOMAIN page.promises : page.promises[i] = page.promises[j] => i = j
    /\ \A i, j \in DOMAIN hist.settles :
          (/\ i < j
           /\ hist.settles[i][2] # 0
           /\ hist.settles[i][3] = hist.settles[j][3])
          => tasks[hist.settles[i][1]].js.id # tasks[hist.settles[j][1]].js.id

\* A document called "f" (id 1) and was replaced by a new document before
\* the response was evaluated; the new document called "f" too (id 1 again).
\* The first response settled the second call's promise, and the second
\* response found slot 1 cleared.
C16_Stale ==
    /\ Len(hist.sent) = 2
    /\ hist.sent[1] = <<Envelope(1, "f", <<>>), 1>>
    /\ hist.sent[2] = <<Envelope(1, "f", <<>>), 2>>
    /\ Len(hist.settles) = 2
    /\ RequestOf(hist.settles[1][1]) = 1
    /\ hist.settles[1][2] = 2
    /\ hist.settles[2][2] = 0

(***************************************************************************)
(* Properties of the bridge and the queue together (SpecMix).              *)
(***************************************************************************)
\* The thread that holds w.m is at the statement right before its Unlock.
AboutToUnlock(t) ==
    \/ pc[t] \in {"DispatchAppend", "BindInsert"}
    \/ t = UI /\ pc[UI] = "idle" /\ uipc \in {"RunSwap", "Lookup"}

\* C17: the thread that runs a bound handler or the body of a dispatched
\* task does not hold w.m meanwhile, so a Dispatch made inside the body does
\* not wait for its own thread; whoever holds w.m is one statement away from
\* Unlock and waits for nothing, so a Dispatch or Bind of any thread gets the
\* lock without waiting for the running handler or task.
C17_LockNotHeld ==
    /\ uipc \in {"RunTask", "Call", "RunRange", "msgcbDispatch"} =>
          (m = UI => pc[UI] = "DispatchAppend")
    /\ \A t \in Threads : m = t => AboutToUnlock(t)
    /\ \A t \in Threads : pc[t] \in {"DispatchLock", "BindLock"} => m # t
    /\ uipc \in {"RunLock", "LookupLock"} => m # UI

\* The body of a task is running and has called Dispatch, which holds w.m
\* for its append: the loop's thread got the lock inside the body.
C17_Witness ==
    /\ uipc = "RunTask"
    /\ tasks[cur.task].kind = "spawn"
    /\ pc[UI] = "DispatchAppend"
    /\ m = UI
    /\ hist.invoked # <<>>

(***************************************************************************)
(* More properties of the dispatch queue (Spec).                           *)
(***************************************************************************)
\* C18: no wake-up is lost.  While Run has not returned and w.dispatchq is
\* not empty, a wake message is in the loop's queue, or some Dispatch has
\* appended and is about to post, or the loop has taken a wake message and is
\* about to swap.  A wake that finds w.dispatchq empty runs nothing: the copy
\* is empty and the loop goes back to GetMessageW.
C18_NoLostWake ==
    /\ []((uipc # "Terminated" /\ dispatchq # <<>>) =>
            \/ WakePending
            \/ \E t \in Threads : pc[t] = "DispatchPost"
            \/ uipc \in {"RunLock", "RunSwap"})
    /\ [][(uipc = "RunSwap" /\ uipc' = "RunRange" /\ dispatchq = <<>>) =>
             q' = <<>>]_vars
    /\ [][(uipc = "RunRange" /\ uipc' # "RunRange" /\ q = <<>>) =>
            /\ uipc' = "GetMessage"
            /\ hist'.started = hist.started]_vars

\* Two tasks ran in the first drain, the second wake found the list empty,
\* and now a third task is queued with its wake taken by the loop, which is
\* about to swap: no wake is in the queue and no Dispatch is about to post.
C18_Witness ==
    /\ uipc = "RunLock"
    /\ dispatchq # <<>>
    /\ ~WakePending
    /\ \A t \in Threads : pc[t] # "DispatchPost"
    /\ hist.drains = 2
    /\ Len(hist.started) = 2
    /\ \A i \in DOMAIN hist.started : hist.started[i][2] = 1

\* C19: responses are deferred and ordered.  A statement is evaluated only by
\* a closure the range loop of Run has started, never by msgcb itself, and
\* the k-th statement evaluated is the one msgcb dispatched for the k-th
\* request it processed, whatever tasks other threads dispatch in between.
C19_DeferredInOrder ==
    /\ Len(hist.settles) = Len(hist.evald)
    /\ Len(hist.settles) <= Len(hist.resp)
    /\ \A k \in DOMAIN hist.settles :
          /\ hist.settles[k][1] = hist.resp[k][1]
          /\ hist.evald[k] = tasks[hist.resp[k][1]].js
          /\ hist.settles[k][1] \in Range(StartedIds)
    /\ uipc \in {"msgcb", "LookupLock", "Lookup", "Call", "msgcbDispatch"} =>
          \A k \in DOMAIN hist.settles : RequestOf(hist.settles[k][1]) < hist.received

\* Two requests were answered in order, with a task of another thread
\* appended to w.dispatchq between their two responses.
C19_Witness ==
    /\ Len(hist.evald) = 2
    /\ hist.evald[1].id = 1
    /\ hist.evald[2].id = 2
    /\ Len(hist.appended) >= 3
    /\ tasks[hist.appended[1][1]].kind = "eval"
    /\ tasks[hist.appended[2][1]].kind # "eval"
    /\ tasks[hist.appended[3][1]].kind = "eval"

====
